---- MODULE Spec2Model ----
(***************************************************************************)
(* State-machine model of the basic_eth canister (src/basic_eth/src/lib.rs)*)
(*                                                                         *)
(* The canister runs on a single-threaded cooperative scheduler: the code  *)
(* of an update call runs atomically from its entry (or from the delivery  *)
(* of a reply) up to the next `.await` of an outgoing call.  Each action   *)
(* below is one such atomic piece.  Calls to the key-custody service       *)
(* (get_eth_addr, sign_transaction) and to the Ethereum node (gas_price,   *)
(* balance, transaction_count, send_raw_transaction) are the suspension    *)
(* points; their replies are chosen by the environment.                    *)
(*                                                                         *)
(* ICHttp::new(URL, None) only builds the transport object for the fixed   *)
(* URL and sends nothing; it succeeds, so its Err arms (lines 49, 83, 118)  *)
(* are not taken.  The f64 amounts are modelled as exact decimals m * 10^e. *)
(*                                                                         *)
(* Strings are sequences of one-character strings, byte strings are        *)
(* sequences of numbers 0..255, Option values are <<>> (None) or <<v>>     *)
(* (Some(v)), Result values are records [ok, val].                         *)
(***************************************************************************)
EXTENDS Integers, Sequences, FiniteSets, TLC

\* ------------------------------------------------------------------ bounds

\* Number of calls the canister receives (each may overlap with the others).
NumCalls == 2

Calls == 1..NumCalls

\* ------------------------------------------------------------ program text

CHAIN_ID == 11155111

KEY_NAME == "dfx_test_key"

URL == "https://eth-sepolia.g.alchemy.com/v2/YPe0Rex7dk40_XbWsn0pdm4UysevzMtq"

GAS == 21000

\* ------------------------------------------------------------- strings/hex

HexDigits == <<"0","1","2","3","4","5","6","7","8","9","a","b","c","d","e","f">>

IsHexDigit(ch) == \E i \in 1..16 : HexDigits[i] = ch

HexVal(ch) == (CHOOSE i \in 1..16 : HexDigits[i] = ch) - 1

\* hex::encode: two lower-case hex digits per byte.
HexEncode(bytes) ==
  [i \in 1..(2 * Len(bytes)) |->
     IF i % 2 = 1 THEN HexDigits[(bytes[(i + 1) \div 2] \div 16) + 1]
                  ELSE HexDigits[(bytes[i \div 2] % 16) + 1]]

HexDecode(s) ==
  [i \in 1..(Len(s) \div 2) |-> 16 * HexVal(s[2 * i - 1]) + HexVal(s[2 * i])]

StripPrefix0x(s) ==
  IF Len(s) >= 2 /\ s[1] = "0" /\ s[2] = "x" THEN SubSeq(s, 3, Len(s)) ELSE s

\* Address::from_str: an optional "0x", then exactly 40 hex digits (20 bytes).
AddressFromStr(s) ==
  LET h == StripPrefix0x(s)
  IN  IF Len(h) # 40 THEN [ok |-> FALSE, val |-> <<"Invalid input length">>]
      ELSE IF \E i \in 1..40 : ~IsHexDigit(h[i])
           THEN [ok |-> FALSE, val |-> <<"Invalid character">>]
           ELSE [ok |-> TRUE, val |-> HexDecode(h)]

Zeros(n) == [i \in 1..n |-> 0]

\* ---------------------------------------------------------- decimal values

\* A decimal amount m * 10^e (the f64 argument of eth_to_wei and
\* send_eth_in_ether, and the U256 amounts the node reports).
Dec(m, e) == [m |-> m, e |-> e]

Pow10(n) == IF n <= 0 THEN 1 ELSE
  LET p[k \in 0..n] == IF k = 0 THEN 1 ELSE 10 * p[k - 1] IN p[n]

\* eth * 1e18
MulE18(x) == Dec(x.m, x.e + 18)

\* wei / 1e18
DivE18(x) == Dec(x.m, x.e - 18)

NumDigits(m) == CHOOSE d \in 1..10 : Pow10(d - 1) <= m /\ m < Pow10(d)

\* The leading d digits of 2^64 = 18446744073709551616, for d <= 9.
TwoPow64Lead(d) == 184467440 \div Pow10(9 - d)

\* x >= 2^64, for a positive mantissa of at most 9 digits.
GeTwoPow64(x) ==
  LET d == NumDigits(x.m)
  IN  \/ x.e + d > 20
      \/ x.e + d = 20 /\ x.m > TwoPow64Lead(d)

\* `x as u64`: saturating float-to-integer cast, truncating toward zero.
\* The result is the u64 as a decimal, or the marker max = TRUE for u64::MAX.
AsU64(x) ==
  IF x.m <= 0 THEN [max |-> FALSE, m |-> 0, e |-> 0]
  ELSE IF GeTwoPow64(x) THEN [max |-> TRUE, m |-> 0, e |-> 0]
  ELSE IF x.e >= 0 THEN [max |-> FALSE, m |-> x.m, e |-> x.e]
  ELSE [max |-> FALSE, m |-> x.m \div Pow10(0 - x.e), e |-> 0]

\* gas_price: Some(U256::from(100_000_000_000u64))
GAS_PRICE == Dec(1, 11)

\* ------------------------------------------------------------- environment

\* The canister's principal (ic_cdk::id()), used as the derivation path.
CanisterId == <<128, 1>>

\* The address the key-custody service derives for this canister and key.
CanisterEthAddr == Zeros(18) \o <<202, 254>>

Errors == {"rejected"}

GasPrices == {Dec(3, 9)}

Balances == {Dec(25, 17)}

\* The transaction counts the node may report.
TxCounts == {0, 1}

Signatures == {"sig"}

TxHashes == {<<171, 205>>}

ValidTo == <<"0", "x">> \o [i \in 1..36 |-> "0"] \o <<"d", "e", "a", "d">>

ShortTo == <<"0", "x", "d", "e", "a", "d">>

Recipients == {ValidTo, ShortTo}

Amounts == {Dec(-1, 0), Dec(0, 0), Dec(15, -19), Dec(2, 1)}

\* The nonce argument: None or Some(7).
Nonces == {<<>>, <<7>>}

Headers == {<<>>, <<"date">>}

\* ------------------------------------------------------------------- state

VARIABLES
  ADDRESS,   \* the thread-local cache of the canister's address string
  method,    \* method[c]: the canister method call c invoked ("" before)
  args,      \* args[c]: its arguments
  pc,        \* pc[c]: "idle", the outgoing call c awaits, or "done"
  frame,     \* frame[c]: the local variables live across awaits
  log,       \* log[c]: the outgoing requests of c and the replies to them
  result     \* result[c]: <<>> or <<the Result returned to the caller>>

vars == <<ADDRESS, method, args, pc, frame, log, result>>

Ok(v) == [ok |-> TRUE, val |-> v]

Err(v) == [ok |-> FALSE, val |-> v]

\* An event of a call's log: a request to, or the reply of, service svc.  The
\* payload is in the last field, so that two events are told apart by dir,
\* svc and ok before payloads of different shapes are compared.
Req(svc, arg) == [dir |-> "req", svc |-> svc, ok |-> TRUE, data |-> arg]

Rsp(svc, r) == [dir |-> "rsp", svc |-> svc, ok |-> r.ok, data |-> r.val]

NoFrame == [from_addr |-> <<>>, to |-> <<>>, value |-> <<>>, tx |-> <<>>,
            signed_tx |-> <<>>]

\* What the environment may answer to a request of service svc.
Replies(svc) ==
  {Err(<<e>>) : e \in Errors} \cup
  CASE svc = "derive"            -> {Ok(CanisterEthAddr)}
    [] svc = "gas_price"         -> {Ok(p) : p \in GasPrices}
    [] svc = "balance"           -> {Ok(b) : b \in Balances}
    [] svc = "transaction_count" -> {Ok(n) : n \in TxCounts}
    [] svc = "sign"              -> {Ok(s) : s \in Signatures}
    [] svc = "send_raw"          -> {Ok(h) : h \in TxHashes}

Init ==
  /\ ADDRESS = <<>>
  /\ method = [c \in Calls |-> ""]
  /\ args = [c \in Calls |-> <<>>]
  /\ pc = [c \in Calls |-> "idle"]
  /\ frame = [c \in Calls |-> NoFrame]
  /\ log = [c \in Calls |-> <<>>]
  /\ result = [c \in Calls |-> <<>>]

\* Call c enters method m with arguments a.
Enter(c, m, a) ==
  /\ pc[c] = "idle"
  /\ method' = [method EXCEPT ![c] = m]
  /\ args' = [args EXCEPT ![c] = a]

\* Call c returns r to its caller.
Return(c, r) ==
  /\ pc' = [pc EXCEPT ![c] = "done"]
  /\ result' = [result EXCEPT ![c] = <<r>>]

\* Variant of Await: the call parks behind the request and is never resumed
\* by its reply.
AwaitParked(c, earlier, svc, arg) ==
  /\ pc' = [pc EXCEPT ![c] = "parked"]
  /\ log' = [log EXCEPT ![c] = log[c] \o earlier \o <<Req(svc, arg)>>]
  /\ UNCHANGED result

\* Call c issues request `svc(arg)` and suspends; earlier holds the events
\* (the reply just delivered, if any) to record before it.
Await(c, earlier, svc, arg) ==
  /\ pc' = [pc EXCEPT ![c] = svc]
  /\ log' = [log EXCEPT ![c] = log[c] \o earlier \o <<Req(svc, arg)>>]
  /\ UNCHANGED result

\* ------------------------------------------------------------- transform

transform(c) ==
  \E h \in Headers :
    /\ Enter(c, "transform", [response |-> [status |-> 200, headers |-> h, body |-> <<>>]])
    /\ Return(c, Ok([status |-> 200, headers |-> <<>>, body |-> <<>>]))
    /\ UNCHANGED <<ADDRESS, frame, log>>

\* ----------------------------------------------------- get_eth_gas_price

get_eth_gas_price(c) ==
  /\ Enter(c, "get_eth_gas_price", <<>>)
  /\ Await(c, <<>>, "gas_price", <<>>)
  /\ UNCHANGED <<ADDRESS, frame>>

GasPriceResult(r) ==
  IF r.ok THEN Ok(<<r.val, " WEI">>)
  ELSE Err(<<"get gas price failed: ">> \o r.val)

get_eth_gas_price_reply(c) ==
  /\ method[c] = "get_eth_gas_price" /\ pc[c] = "gas_price"
  /\ \E r \in Replies("gas_price") :
       /\ log' = [log EXCEPT ![c] = Append(log[c], Rsp("gas_price", r))]
       /\ Return(c, GasPriceResult(r))
  /\ UNCHANGED <<ADDRESS, method, args, frame>>

\* ------------------------------------------------------- get_eth_address

\* Variant of CacheHit: the cache is never consulted.
CacheHitNever(addr) == FALSE

\* if ADDRESS.with(|addr| { addr.borrow().len() > 0 })
CacheHit(addr) == Len(addr) > 0

\* Variant of StoredAddress: the cached string lacks the "0x" prefix.
StoredAddressBare(address) == HexEncode(address)

\* The string written to ADDRESS after a successful derivation.
StoredAddress(address) == <<"0", "x">> \o HexEncode(address)

\* The string returned by the call that derived the address.
ReturnedAddress(address) == <<"0", "x">> \o HexEncode(address)

\* Variant of CacheAfterDerive: a failed derivation caches a default address.
CacheAfterDeriveDefault(cache, r) ==
  IF r.ok THEN StoredAddress(r.val) ELSE StoredAddress(<<>>)

\* Variant of CacheAfterDerive: the derived address is never cached.
CacheAfterDeriveNever(cache, r) == cache

\* ADDRESS after the reply r of get_eth_addr was handled.
CacheAfterDerive(cache, r) == IF r.ok THEN StoredAddress(r.val) ELSE cache

\* The Result of get_eth_address after the reply r of get_eth_addr.
DeriveResult(r) == IF r.ok THEN Ok(ReturnedAddress(r.val)) ELSE Err(r.val)

\* The request get_eth_addr(None, None, KEY_NAME) sends to the key service.
DeriveArg == [derivation_path |-> <<CanisterId>>, key_name |-> KEY_NAME]

get_eth_address(c) ==
  /\ Enter(c, "get_eth_address", <<>>)
  /\ IF CacheHit(ADDRESS)
       THEN Return(c, Ok(ADDRESS)) /\ UNCHANGED log
       ELSE Await(c, <<>>, "derive", DeriveArg)
  /\ UNCHANGED <<ADDRESS, frame>>

get_eth_address_reply(c) ==
  /\ method[c] = "get_eth_address" /\ pc[c] = "derive"
  /\ \E r \in Replies("derive") :
       /\ log' = [log EXCEPT ![c] = Append(log[c], Rsp("derive", r))]
       /\ ADDRESS' = CacheAfterDerive(ADDRESS, r)
       /\ Return(c, DeriveResult(r))
  /\ UNCHANGED <<method, args, frame>>

\* ------------------------------------------------------- get_eth_balance

\* The balance request for the address string addr; Address::from_str(&addr)
\* .unwrap() panics on a string that does not parse, which traps the call and
\* rolls back the state changes of the running piece of code.
BalanceStep(c, earlier, addr, cacheIfOk) ==
  LET a == AddressFromStr(addr)
  IN  IF a.ok
        THEN /\ Await(c, earlier, "balance", a.val)
             /\ ADDRESS' = cacheIfOk
        ELSE /\ Return(c, Err(<<"trap">>))
             /\ log' = [log EXCEPT ![c] = log[c] \o earlier]
             /\ UNCHANGED ADDRESS

get_eth_balance(c) ==
  /\ Enter(c, "get_eth_balance", <<>>)
  /\ IF CacheHit(ADDRESS)
       THEN BalanceStep(c, <<>>, ADDRESS, ADDRESS)
       ELSE Await(c, <<>>, "derive", DeriveArg) /\ UNCHANGED ADDRESS
  /\ UNCHANGED frame

get_eth_balance_derive_reply(c) ==
  /\ method[c] = "get_eth_balance" /\ pc[c] = "derive"
  /\ \E r \in Replies("derive") :
       LET got == DeriveResult(r)
       IN  IF got.ok
             THEN BalanceStep(c, <<Rsp("derive", r)>>, got.val,
                              CacheAfterDerive(ADDRESS, r))
             ELSE /\ log' = [log EXCEPT ![c] = Append(log[c], Rsp("derive", r))]
                  /\ ADDRESS' = CacheAfterDerive(ADDRESS, r)
                  /\ Return(c, Err(<<"get eth address failed: ">> \o got.val))
  /\ UNCHANGED <<method, args, frame>>

BalanceResult(r) ==
  IF r.ok THEN Ok(<<DivE18(r.val), " ETH">>)
  ELSE Err(<<"get balance failed: ">> \o r.val)

get_eth_balance_reply(c) ==
  /\ method[c] = "get_eth_balance" /\ pc[c] = "balance"
  /\ \E r \in Replies("balance") :
       /\ log' = [log EXCEPT ![c] = Append(log[c], Rsp("balance", r))]
       /\ Return(c, BalanceResult(r))
  /\ UNCHANGED <<ADDRESS, method, args, frame>>

\* ------------------------------------------------------------ eth_to_wei

eth_to_wei(c) ==
  \E eth \in Amounts :
    /\ Enter(c, "eth_to_wei", [eth |-> eth])
    /\ Return(c, Ok(AsU64(MulE18(eth))))
    /\ UNCHANGED <<ADDRESS, frame, log>>

\* ----------------------------------------------------- send_eth_in_ether

\* Variant of SendValidation: the recipient is not checked up front.
SendValidationAmountOnly(to, eth_value) ==
  IF eth_value.m <= 0
    THEN <<Err(<<"value=", eth_value, " can only be a positive number">>)>>
    ELSE <<>>

\* Variant of SendValidation: only a negative amount is rejected.
SendValidationNegativeOnly(to, eth_value) ==
  IF eth_value.m < 0
    THEN <<Err(<<"value=", eth_value, " can only be a positive number">>)>>
    ELSE IF ~AddressFromStr(to).ok
      THEN <<Err(<<"to='", to, "' is not a valid ethereum address. Error=">>
                 \o AddressFromStr(to).val)>>
      ELSE <<>>

\* The checks made before the first await: <<>> when both pass, else <<the
\* error returned>>.  `eth_value <= 0` first, then Address::from_str(&to).
SendValidation(to, eth_value) ==
  IF eth_value.m <= 0
    THEN <<Err(<<"value=", eth_value, " can only be a positive number">>)>>
    ELSE IF ~AddressFromStr(to).ok
      THEN <<Err(<<"to='", to, "' is not a valid ethereum address. Error=">>
                 \o AddressFromStr(to).val)>>
      ELSE <<>>

\* KeyInfo{ derivation_path: vec![ic_cdk::id()...], key_name: KEY_NAME, .. }
KeyInfo == [derivation_path |-> <<CanisterId>>, key_name |-> KEY_NAME,
            ecdsa_sign_cycles |-> <<>>]

\* Variant of NeedsCountQuery: the node is asked whatever the override.
NeedsCountQueryAlways(nonce) == TRUE

\* `if let Some(count) = nonce { .. } else { transaction_count(..).await }`
NeedsCountQuery(nonce) == nonce = <<>>

\* count.into(): the override, widened to U256.
OverrideNonce(nonce) == nonce[1]

\* Variant of QueriedNonce: the count is taken to be the last used nonce.
QueriedNonceNext(v) == v + 1

\* The value `v` of the transaction_count reply, used as it is.
QueriedNonce(v) == v

\* Variant of TransactionParameters: value is left to ..Default::default().
TransactionParametersNoValue(to, tx_count, value) ==
  [to |-> <<to>>, nonce |-> <<tx_count>>, value |-> [max |-> FALSE, m |-> 0, e |-> 0],
   gas_price |-> <<GAS_PRICE>>, gas |-> GAS]

\* TransactionParameters { to, nonce, value, gas_price, gas, ..Default }
TransactionParameters(to, tx_count, value) ==
  [to |-> <<to>>, nonce |-> <<tx_count>>, value |-> value,
   gas_price |-> <<GAS_PRICE>>, gas |-> GAS]

\* The arguments of w3.accounts().sign_transaction(..).
SignArg(tx, from_addr) ==
  [tx |-> tx, from |-> HexEncode(from_addr), key_info |-> KeyInfo,
   chain_id |-> CHAIN_ID]

\* The content hash of a signed payload (an abstract digest of its fields).
Keccak256(raw) == <<(raw.tx.nonce[1] + raw.tx.gas) % 256, 190, 239>>

\* Variant of SignedTransaction: the payload is encoded without the signature.
SignedTransactionUnsigned(tx, sig) ==
  LET raw == [tx |-> tx, chain_id |-> CHAIN_ID, sig |-> "unsigned"]
  IN  [raw_transaction |-> raw, transaction_hash |-> Keccak256(raw)]

\* The SignedTransaction assembled from the signature sig.
SignedTransaction(tx, sig) ==
  LET raw == [tx |-> tx, chain_id |-> CHAIN_ID, sig |-> sig]
  IN  [raw_transaction |-> raw, transaction_hash |-> Keccak256(raw)]

\* Variant of SubmissionResult: a failed submission falls back to the
\* payload's own content hash as a provisional reference.
SubmissionResultFallback(r, signed_tx) ==
  Ok(<<"https://sepolia.etherscan.io/tx/0x">>
     \o HexEncode(IF r.ok THEN r.val ELSE signed_tx.transaction_hash))

\* The Result of send_eth_in_ether after the reply r of send_raw_transaction.
SubmissionResult(r, signed_tx) ==
  IF r.ok
    THEN Ok(<<"https://sepolia.etherscan.io/tx/0x">> \o HexEncode(r.val))
    ELSE Err(<<"Error:">> \o r.val)

\* Lines 131-142: build the record with nonce tx_count and ask for a signature.
SignStep(c, earlier, from_addr, tx_count) ==
  LET tx == TransactionParameters(frame[c].to[1], tx_count, frame[c].value[1])
  IN  /\ Await(c, earlier, "sign", SignArg(tx, from_addr))
      /\ frame' = [frame EXCEPT ![c].from_addr = <<from_addr>>, ![c].tx = <<tx>>]

send_eth_in_ether(c) ==
  \E to \in Recipients, eth_value \in Amounts, nonce \in Nonces :
    /\ Enter(c, "send_eth_in_ether",
             [to |-> to, eth_value |-> eth_value, nonce |-> nonce])
    /\ LET bad == SendValidation(to, eth_value)
       IN  IF bad # <<>>
             THEN Return(c, bad[1]) /\ UNCHANGED <<frame, log>>
             ELSE /\ Await(c, <<>>, "derive", DeriveArg)
                  /\ frame' = [frame EXCEPT
                       ![c].value = <<AsU64(MulE18(eth_value))>>,
                       ![c].to = <<AddressFromStr(to).val>>]
    /\ UNCHANGED ADDRESS

\* Variant of CacheAfterSendDerive: the transfer stores the address it derived.
CacheAfterSendDeriveStored(cache, r) ==
  IF r.ok THEN <<"0", "x">> \o HexEncode(r.val) ELSE cache

\* ADDRESS after send_eth_in_ether handled the reply r of get_eth_addr: the
\* address is bound to the local from_addr only.
CacheAfterSendDerive(cache, r) == cache

send_eth_in_ether_derive_reply(c) ==
  /\ method[c] = "send_eth_in_ether" /\ pc[c] = "derive"
  /\ \E r \in Replies("derive") :
       /\ ADDRESS' = CacheAfterSendDerive(ADDRESS, r)
       /\ IF ~r.ok
            THEN /\ log' = [log EXCEPT ![c] = Append(log[c], Rsp("derive", r))]
                 /\ Return(c, Err(<<"get canister eth addr failed: ">> \o r.val))
                 /\ UNCHANGED frame
            ELSE IF NeedsCountQuery(args[c].nonce)
              THEN /\ Await(c, <<Rsp("derive", r)>>, "transaction_count", r.val)
                   /\ frame' = [frame EXCEPT ![c].from_addr = <<r.val>>]
              ELSE SignStep(c, <<Rsp("derive", r)>>, r.val,
                            OverrideNonce(args[c].nonce))
  /\ UNCHANGED <<method, args>>

send_eth_in_ether_count_reply(c) ==
  /\ method[c] = "send_eth_in_ether" /\ pc[c] = "transaction_count"
  /\ \E r \in Replies("transaction_count") :
       IF ~r.ok
         THEN /\ log' = [log EXCEPT ![c] = Append(log[c], Rsp("transaction_count", r))]
              /\ Return(c, Err(<<"get tx count error: ">> \o r.val))
              /\ UNCHANGED frame
         ELSE SignStep(c, <<Rsp("transaction_count", r)>>, frame[c].from_addr[1],
                       QueriedNonce(r.val))
  /\ UNCHANGED <<ADDRESS, method, args>>

send_eth_in_ether_sign_reply(c) ==
  /\ method[c] = "send_eth_in_ether" /\ pc[c] = "sign"
  /\ \E r \in Replies("sign") :
       IF ~r.ok
         THEN /\ log' = [log EXCEPT ![c] = Append(log[c], Rsp("sign", r))]
              /\ Return(c, Err(<<"sign tx error: ">> \o r.val))
              /\ UNCHANGED frame
         ELSE LET signed_tx == SignedTransaction(frame[c].tx[1], r.val)
              IN  /\ Await(c, <<Rsp("sign", r)>>, "send_raw", signed_tx.raw_transaction)
                  /\ frame' = [frame EXCEPT ![c].signed_tx = <<signed_tx>>]
  /\ UNCHANGED <<ADDRESS, method, args>>

send_eth_in_ether_send_reply(c) ==
  /\ method[c] = "send_eth_in_ether" /\ pc[c] = "send_raw"
  /\ \E r \in Replies("send_raw") :
       /\ log' = [log EXCEPT ![c] = Append(log[c], Rsp("send_raw", r))]
       /\ Return(c, SubmissionResult(r, frame[c].signed_tx[1]))
  /\ UNCHANGED <<ADDRESS, method, args, frame>>

Next ==
  \E c \in Calls :
    \/ transform(c)
    \/ get_eth_gas_price(c)
    \/ get_eth_gas_price_reply(c)
    \/ get_eth_address(c)
    \/ get_eth_address_reply(c)
    \/ get_eth_balance(c)
    \/ get_eth_balance_derive_reply(c)
    \/ get_eth_balance_reply(c)
    \/ eth_to_wei(c)
    \/ send_eth_in_ether(c)
    \/ send_eth_in_ether_derive_reply(c)
    \/ send_eth_in_ether_count_reply(c)
    \/ send_eth_in_ether_sign_reply(c)
    \/ send_eth_in_ether_send_reply(c)

Spec == Init /\ [][Next]_vars

\* The delivery of the reply call c awaits, whichever it is.
Resume(c) ==
  \/ get_eth_gas_price_reply(c)
  \/ get_eth_address_reply(c)
  \/ get_eth_balance_derive_reply(c)
  \/ get_eth_balance_reply(c)
  \/ send_eth_in_ether_derive_reply(c)
  \/ send_eth_in_ether_count_reply(c)
  \/ send_eth_in_ether_sign_reply(c)
  \/ send_eth_in_ether_send_reply(c)

\* Every outgoing call is eventually answered (with a success or a failure).
FairSpec == Spec /\ \A c \in Calls : WF_vars(Resume(c))

\* ------------------------------------------------------------ observations

\* The positions of the requests to service svc in the log of call c.
RequestsOf(c, svc) ==
  {i \in DOMAIN log[c] : log[c][i].dir = "req" /\ log[c][i].svc = svc}

\* The positions of the replies from service svc in the log of call c.
RepliesOf(c, svc) ==
  {i \in DOMAIN log[c] : log[c][i].dir = "rsp" /\ log[c][i].svc = svc}

NumRequests(c, svc) == Cardinality(RequestsOf(c, svc))

KeyServices == {"derive", "sign"}

NetworkServices == {"gas_price", "balance", "transaction_count", "send_raw"}

Done(c) == pc[c] = "done"

DoneOk(c) == pc[c] = "done" /\ result[c][1].ok

DoneErr(c) == pc[c] = "done" /\ ~result[c][1].ok

\* The last event in the log of c is a failed reply of service svc.
LastReplyFailed(c, svc) ==
  /\ log[c] # <<>>
  /\ log[c][Len(log[c])].dir = "rsp"
  /\ log[c][Len(log[c])].svc = svc
  /\ ~log[c][Len(log[c])].ok

\* The last event in the log of c is a successful reply of service svc.
LastReplyOk(c, svc) ==
  /\ log[c] # <<>>
  /\ log[c][Len(log[c])].dir = "rsp"
  /\ log[c][Len(log[c])].svc = svc
  /\ log[c][Len(log[c])].ok

\* ------------------------------------------------------------------ claims

\* C1: single-flight derivation.  Among the get_eth_address calls, at most
\* one derivation request is in flight or has succeeded: a call that arrives
\* while a derivation is in flight does not issue a second request, and once
\* a derivation succeeded no further one is issued.
C1_SingleFlight ==
  Cardinality({c \in Calls :
      /\ method[c] = "get_eth_address"
      /\ NumRequests(c, "derive") > 0
      /\ (pc[c] = "derive" \/ DoneOk(c))}) <= 1

\* C2: a get_eth_address call that starts after another get_eth_address call
\* has returned successfully returns at once, with the identical Result, and
\* without any request to the key service.
C2_SecondCallCached ==
  [][\A c, d \in Calls :
       ( /\ c # d
         /\ pc[c] = "idle" /\ method'[c] = "get_eth_address"
         /\ method[d] = "get_eth_address" /\ DoneOk(d) )
       => /\ pc'[c] = "done"
          /\ result'[c] = result[d]
          /\ log'[c] = <<>>]_vars

C2_Witness ==
  \E c, d \in Calls :
    /\ c # d
    /\ method[c] = "get_eth_address" /\ DoneOk(c) /\ log[c] = <<>>
    /\ method[d] = "get_eth_address" /\ DoneOk(d)
    /\ NumRequests(d, "derive") = 1
    /\ result[c] = result[d]

\* C3: once ADDRESS is non-empty it never changes, and every get_eth_address
\* call that has returned successfully returned the string held in ADDRESS.
C3_CacheImmutable ==
  [][ /\ Len(ADDRESS) > 0 => ADDRESS' = ADDRESS
      /\ \A c \in Calls :
           (method'[c] = "get_eth_address" /\ pc'[c] = "done" /\ result'[c][1].ok)
           => (Len(ADDRESS') > 0 /\ result'[c][1].val = ADDRESS') ]_vars

\* Two overlapping derivations both wrote the cache, and a third party
\* (a balance query or a transfer) ran as well.
C3_Witness ==
  /\ Len(ADDRESS) > 0
  /\ \E c, d \in Calls :
       /\ c # d
       /\ method[c] = "get_eth_address" /\ DoneOk(c) /\ NumRequests(c, "derive") = 1
       /\ method[d] \in {"get_eth_address", "get_eth_balance"}
       /\ LET ok == {i \in RepliesOf(d, "derive") : log[d][i].ok}
          IN  ok # {}
       /\ result[c][1].val = ADDRESS

\* C4: when the derivation requested by get_eth_address fails while ADDRESS
\* is empty, the call returns an error and ADDRESS is still empty; and a
\* get_eth_address call entered while ADDRESS is empty issues a derivation
\* request of its own instead of returning a cached value or error.
C4_FailedDerivationRetried ==
  [][\A c \in Calls :
       /\ ( /\ method[c] = "get_eth_address" /\ pc[c] = "derive"
            /\ ADDRESS = <<>>
            /\ pc'[c] = "done" /\ ~log'[c][Len(log'[c])].ok )
          => (~result'[c][1].ok /\ ADDRESS' = <<>>)
       /\ ( /\ pc[c] = "idle" /\ method'[c] = "get_eth_address"
            /\ ADDRESS = <<>> )
          => ( /\ pc'[c] = "derive"
               /\ result'[c] = <<>>
               /\ log'[c] = <<Req("derive", DeriveArg)>> )]_vars

\* One get_eth_address call failed, the cache is still empty, and another
\* call has issued a derivation request of its own.
C4_Witness ==
  \E c, d \in Calls :
    /\ c # d
    /\ method[c] = "get_eth_address" /\ DoneErr(c) /\ LastReplyFailed(c, "derive")
    /\ method[d] = "get_eth_address" /\ NumRequests(d, "derive") = 1
    /\ pc[d] = "derive"
    /\ ADDRESS = <<>>

\* C5: a send_eth_in_ether call whose amount is negative or whose recipient
\* is not a well-formed address has returned a validation error without any
\* request to the key service or to the node, whatever the nonce argument.
C5_EagerValidation ==
  \A c \in Calls :
    ( /\ method[c] = "send_eth_in_ether"
      /\ (args[c].eth_value.m < 0 \/ ~AddressFromStr(args[c].to).ok) )
    => /\ DoneErr(c)
       /\ log[c] = <<>>
       /\ \A svc \in KeyServices \cup NetworkServices : NumRequests(c, svc) = 0
       /\ result[c][1].val[1] \in {"value=", "to='"}
       /\ args[c].eth_value.m < 0 => result[c][1].val[1] = "value="

C5_Witness ==
  /\ \E c \in Calls :
       /\ method[c] = "send_eth_in_ether"
       /\ args[c].eth_value.m > 0 /\ ~AddressFromStr(args[c].to).ok
       /\ args[c].nonce = <<7>>
       /\ DoneErr(c) /\ log[c] = <<>> /\ result[c][1].val[1] = "to='"
  /\ \E c \in Calls :
       /\ method[c] = "send_eth_in_ether"
       /\ args[c].eth_value.m < 0 /\ args[c].nonce = <<>>
       /\ DoneErr(c) /\ log[c] = <<>>

\* C6: a send_eth_in_ether call with nonce Some(n) never asks the node for
\* the transaction count, and every record it hands to the signer carries
\* nonce n.
C6_OverrideUsed ==
  \A c \in Calls :
    (method[c] = "send_eth_in_ether" /\ args[c].nonce # <<>>)
    => /\ NumRequests(c, "transaction_count") = 0
       /\ \A i \in RequestsOf(c, "sign") :
            log[c][i].data.tx.nonce = <<args[c].nonce[1]>>

C6_Witness ==
  \E c \in Calls :
    /\ method[c] = "send_eth_in_ether" /\ args[c].nonce = <<7>>
    /\ DoneOk(c)
    /\ NumRequests(c, "sign") = 1
    /\ NumRequests(c, "transaction_count") = 0

\* C7: a send_eth_in_ether call without nonce argument that reaches signing
\* has asked the node for the transaction count of the sender address exactly
\* once, and the record it hands to the signer carries exactly the count
\* that this request returned.
C7_QueriedCountVerbatim ==
  \A c \in Calls :
    (method[c] = "send_eth_in_ether" /\ args[c].nonce = <<>>)
    => \A i \in RequestsOf(c, "sign") :
         /\ NumRequests(c, "transaction_count") = 1
         /\ \E q \in RequestsOf(c, "transaction_count"),
               d \in RepliesOf(c, "derive"),
               r \in RepliesOf(c, "transaction_count") :
              /\ d < q /\ q < r /\ r < i
              /\ log[c][d].ok /\ log[c][q].data = log[c][d].data
              /\ log[c][r].ok
              /\ log[c][i].data.tx.nonce = <<log[c][r].data>>

\* Two transfers without nonce argument were given different counts and each
\* signed with its own.
C7_Witness ==
  \E c, d \in Calls :
    /\ c # d
    /\ method[c] = "send_eth_in_ether" /\ args[c].nonce = <<>>
    /\ method[d] = "send_eth_in_ether" /\ args[d].nonce = <<>>
    /\ \E i \in RequestsOf(c, "sign") : log[c][i].data.tx.nonce = <<0>>
    /\ \E i \in RequestsOf(d, "sign") : log[d][i].data.tx.nonce = <<1>>

\* C8: get_eth_gas_price and get_eth_balance report a failure of their node
\* query only after three attempts (so a node that fails twice and then
\* answers yields a success).
C8_ReadRetry ==
  \A c \in Calls :
    /\ (method[c] = "get_eth_gas_price" /\ DoneErr(c) /\ LastReplyFailed(c, "gas_price"))
       => NumRequests(c, "gas_price") = 3
    /\ (method[c] = "get_eth_balance" /\ DoneErr(c) /\ LastReplyFailed(c, "balance"))
       => NumRequests(c, "balance") = 3

\* C9: send_eth_in_ether reports a failed submission only after three
\* send_raw attempts of the payload it signed once.
C9_SubmitRetry ==
  \A c \in Calls :
    (method[c] = "send_eth_in_ether" /\ DoneErr(c) /\ LastReplyFailed(c, "send_raw"))
    => /\ NumRequests(c, "send_raw") = 3
       /\ NumRequests(c, "sign") = 1

\* C10: send_eth_in_ether returns a success value exactly when its last
\* event is a successful send_raw reply, and that value is built from the
\* transaction hash in that reply; after a failed submission it has returned
\* an error.
C10_NoProvisionalReference ==
  \A c \in Calls :
    (method[c] = "send_eth_in_ether" /\ Done(c))
    => /\ result[c][1].ok <=> LastReplyOk(c, "send_raw")
       /\ result[c][1].ok =>
            result[c][1].val = <<"https://sepolia.etherscan.io/tx/0x">>
                               \o HexEncode(log[c][Len(log[c])].data)
       /\ LastReplyFailed(c, "send_raw") =>
            (~result[c][1].ok /\ result[c][1].val[1] = "Error:")

C10_Witness ==
  /\ \E c \in Calls :
       /\ method[c] = "send_eth_in_ether" /\ LastReplyFailed(c, "send_raw")
       /\ DoneErr(c) /\ frame[c].signed_tx # <<>>
  /\ \E c \in Calls :
       /\ method[c] = "send_eth_in_ether" /\ LastReplyOk(c, "send_raw")
       /\ DoneOk(c)

\* floor(x * 10^18) for a decimal x >= 0, as an exact (unclamped) integer
\* m * 10^e.
FloorMinorUnits(x) ==
  IF x.m = 0 THEN [max |-> FALSE, m |-> 0, e |-> 0]
  ELSE IF x.e + 18 >= 0 THEN [max |-> FALSE, m |-> x.m, e |-> x.e + 18]
  ELSE [max |-> FALSE, m |-> x.m \div Pow10(0 - (x.e + 18)), e |-> 0]

\* C11: eth_to_wei returns an error for every negative amount (never a
\* success value such as "0").
C11_NegativeRejected ==
  \A c \in Calls :
    (method[c] = "eth_to_wei" /\ Done(c) /\ args[c].eth.m < 0)
    => ~result[c][1].ok

\* C12: for every non-negative amount, the value eth_to_wei returns and the
\* value send_eth_in_ether puts in the record it signs equal
\* floor(amount * 10^18), also when that is 2^64 or more.
C12_FloorOfMinorUnits ==
  \A c \in Calls :
    /\ (method[c] = "eth_to_wei" /\ Done(c) /\ args[c].eth.m >= 0)
       => (result[c][1].ok /\ result[c][1].val = FloorMinorUnits(args[c].eth))
    /\ method[c] = "send_eth_in_ether"
       => \A i \in RequestsOf(c, "sign") :
            log[c][i].data.tx.value = FloorMinorUnits(args[c].eth_value)

\* The call c of send_eth_in_ether was rejected by the amount check.
AmountRejected(c) ==
  DoneErr(c) /\ log[c] = <<>> /\ result[c][1].val[1] = "value="

\* C13 (as stated): send_eth_in_ether rejects the amount if and only if it
\* is negative; an amount of exactly zero passes the amount check.
C13_RejectedIffNegative ==
  \A c \in Calls :
    method[c] = "send_eth_in_ether"
    => (AmountRejected(c) <=> args[c].eth_value.m < 0)

\* C13 (amended): send_eth_in_ether rejects the amount if and only if it is
\* not strictly positive (negative or zero); a positive amount passes on to
\* the recipient check, and with a well-formed recipient to the derivation.
C13_RejectedIffNotPositive ==
  \A c \in Calls :
    method[c] = "send_eth_in_ether"
    => /\ AmountRejected(c) <=> args[c].eth_value.m <= 0
       /\ args[c].eth_value.m > 0 =>
            IF AddressFromStr(args[c].to).ok
              THEN NumRequests(c, "derive") = 1
              ELSE DoneErr(c) /\ result[c][1].val[1] = "to='"

C13_Witness ==
  /\ \E c \in Calls :
       /\ method[c] = "send_eth_in_ether"
       /\ args[c].eth_value.m = 0 /\ AddressFromStr(args[c].to).ok
       /\ AmountRejected(c)
  /\ \E c \in Calls :
       /\ method[c] = "send_eth_in_ether"
       /\ args[c].eth_value.m > 0
       /\ NumRequests(c, "derive") = 1

\* The counts the node has returned to call c.
CountsReturned(c) ==
  {log[c][i].data : i \in {j \in RepliesOf(c, "transaction_count") : log[c][j].ok}}

\* C14: nothing in the canister keeps two transfers without nonce argument
\* apart: whenever the node has returned the same count n to both, every
\* record either of them hands to the signer and every payload either of
\* them submits carries nonce n.
C14_SameCountSameNonce ==
  \A c, d \in Calls :
    ( /\ c # d
      /\ method[c] = "send_eth_in_ether" /\ args[c].nonce = <<>>
      /\ method[d] = "send_eth_in_ether" /\ args[d].nonce = <<>> )
    => \A n \in CountsReturned(c) \cap CountsReturned(d) :
         \A e \in {c, d} :
           /\ \A i \in RequestsOf(e, "sign") : log[e][i].data.tx.nonce = <<n>>
           /\ \A i \in RequestsOf(e, "send_raw") : log[e][i].data.tx.nonce = <<n>>

\* The collision: two transfers without nonce argument were both given the
\* count 1, both signed, and both payloads with nonce 1 are submitted and
\* still unanswered (neither had been broadcast when the other asked).
C14_Witness ==
  \E c, d \in Calls :
    /\ c # d
    /\ method[c] = "send_eth_in_ether" /\ args[c].nonce = <<>>
    /\ method[d] = "send_eth_in_ether" /\ args[d].nonce = <<>>
    /\ CountsReturned(c) = {1} /\ CountsReturned(d) = {1}
    /\ pc[c] = "send_raw" /\ pc[d] = "send_raw"
    /\ log[c][Len(log[c])].data.tx.nonce = <<1>>
    /\ log[d][Len(log[d])].data.tx.nonce = <<1>>

\* The external steps of a send_eth_in_ether call with nonce argument nonce.
Pipeline(nonce) ==
  IF nonce = <<>> THEN <<"derive", "transaction_count", "sign", "send_raw">>
  ELSE <<"derive", "sign", "send_raw">>

\* C15: the log of a send_eth_in_ether call is request, reply, request, ...
\* through derive, transaction_count (only without nonce argument), sign,
\* send_raw in this order; a request follows only a successful reply, a
\* failed reply ends the call with an error, and the payload submitted is the
\* record handed to the signer in this call with the signature it returned.
C15_PipelineOrder ==
  \A c \in Calls :
    method[c] = "send_eth_in_ether"
    => LET steps == Pipeline(args[c].nonce)
           n == Len(log[c])
       IN  /\ n <= 2 * Len(steps)
           /\ \A i \in 1..n :
                /\ log[c][i].svc = steps[(i + 1) \div 2]
                /\ log[c][i].dir = (IF i % 2 = 1 THEN "req" ELSE "rsp")
                /\ (i < n /\ i % 2 = 0) => log[c][i].ok
           /\ (n > 0 /\ n % 2 = 0 /\ ~log[c][n].ok) => DoneErr(c)
           /\ (n > 0 /\ n % 2 = 1) => pc[c] = log[c][n].svc
           /\ \A i \in RequestsOf(c, "send_raw") :
                /\ log[c][i - 2].svc = "sign" /\ log[c][i - 1].svc = "sign"
                /\ log[c][i].data = [tx |-> log[c][i - 2].data.tx,
                                    chain_id |-> CHAIN_ID,
                                    sig |-> log[c][i - 1].data]

\* One transfer stopped at a failed signature without submitting anything,
\* another went through all four steps.
C15_Witness ==
  /\ \E c \in Calls :
       /\ method[c] = "send_eth_in_ether"
       /\ LastReplyFailed(c, "sign") /\ DoneErr(c)
       /\ NumRequests(c, "send_raw") = 0
  /\ \E c \in Calls :
       /\ method[c] = "send_eth_in_ether" /\ args[c].nonce = <<>>
       /\ DoneOk(c) /\ Len(log[c]) = 8

\* C16: a send_eth_in_ether call entered after a get_eth_address call has
\* returned successfully (ADDRESS is populated) issues no derivation request
\* to the key service.
C16_SendUsesCache ==
  [][\A c, d \in Calls :
       ( /\ pc[c] = "idle" /\ method'[c] = "send_eth_in_ether"
         /\ method[d] = "get_eth_address" /\ DoneOk(d)
         /\ Len(ADDRESS) > 0 )
       => \A i \in DOMAIN log'[c] : log'[c][i].svc # "derive"]_vars

\* The sequence number call c resolved: its nonce argument, else the count
\* the node returned to it.
ResolvedSequences(c) ==
  IF args[c].nonce # <<>> THEN {args[c].nonce[1]} ELSE CountsReturned(c)

\* C17: a send_eth_in_ether call hands at most one record to the signer; it
\* carries the parsed recipient, the amount converted to wei as eth_to_wei
\* converts it, the resolved sequence number, gas price 100_000_000_000 and
\* gas 21000; and the payload submitted holds that record.
C17_RecordFields ==
  \A c \in Calls :
    method[c] = "send_eth_in_ether"
    => /\ NumRequests(c, "sign") <= 1
       /\ \A i \in RequestsOf(c, "sign") :
            LET tx == log[c][i].data.tx
            IN  /\ tx.to = <<AddressFromStr(args[c].to).val>>
                /\ tx.value = AsU64(MulE18(args[c].eth_value))
                /\ \E n \in ResolvedSequences(c) : tx.nonce = <<n>>
                /\ tx.gas_price = <<[m |-> 1, e |-> 11]>>
                /\ tx.gas = 21000
                /\ DOMAIN tx = {"to", "nonce", "value", "gas_price", "gas"}
                /\ \A j \in RequestsOf(c, "send_raw") : log[c][j].data.tx = tx

\* Two transfers with different amounts and sequence numbers both handed a
\* record with the same fee fields to the signer; one has been submitted.
C17_Witness ==
  \E c, d \in Calls :
    /\ method[c] = "send_eth_in_ether" /\ method[d] = "send_eth_in_ether"
    /\ args[c].nonce = <<7>> /\ args[d].nonce = <<>>
    /\ args[c].eth_value # args[d].eth_value
    /\ \E i \in RequestsOf(c, "sign"), j \in RequestsOf(d, "sign") :
         /\ log[c][i].data.tx.value # log[d][j].data.tx.value
         /\ log[c][i].data.tx.nonce # log[d][j].data.tx.nonce
         /\ log[c][i].data.tx.gas = log[d][j].data.tx.gas
         /\ log[c][i].data.tx.gas_price = log[d][j].data.tx.gas_price
    /\ NumRequests(c, "send_raw") = 1

\* What holds of every get_eth_balance call c in a state.
BalanceResolvesFirst(c) ==
  /\ \A i \in RequestsOf(c, "balance") :
       /\ Len(ADDRESS) > 0
       /\ ADDRESS = <<"0", "x">> \o HexEncode(log[c][i].data)
       /\ IF i = 1 THEN NumRequests(c, "derive") = 0
          ELSE /\ log[c][i - 1].dir = "rsp" /\ log[c][i - 1].svc = "derive"
               /\ log[c][i - 1].ok
               /\ log[c][i].data = log[c][i - 1].data
  /\ \A i \in RepliesOf(c, "derive") :
       IF log[c][i].ok
         THEN Len(ADDRESS) > 0 /\ NumRequests(c, "balance") = 1
         ELSE DoneErr(c) /\ NumRequests(c, "balance") = 0
  /\ NumRequests(c, "derive") <= 1 /\ NumRequests(c, "balance") <= 1

\* C18: get_eth_balance asks the node for the balance only after the
\* address was resolved, and for exactly that address; a failed derivation
\* ends it with an error and no balance request; entered with ADDRESS
\* populated it issues no derivation request; and once it has derived the
\* address ADDRESS is populated, also when the balance query then fails.
C18_BalanceViaResolver ==
  [][\A c \in Calls :
       /\ (method'[c] = "get_eth_balance" => BalanceResolvesFirst(c)')
       /\ (pc[c] = "idle" /\ method'[c] = "get_eth_balance" /\ Len(ADDRESS) > 0)
          => ( /\ Len(log'[c]) = 1
               /\ log'[c][1].dir = "req" /\ log'[c][1].svc = "balance"
               /\ AddressFromStr(ADDRESS).ok
               /\ log'[c][1].data = AddressFromStr(ADDRESS).val )]_vars

\* One get_eth_balance derived the address and then failed on the balance
\* query, leaving ADDRESS populated; another one found the cache populated
\* and went straight to the node.
C18_Witness ==
  \E c, d \in Calls :
    /\ c # d
    /\ method[c] = "get_eth_balance" /\ method[d] = "get_eth_balance"
    /\ NumRequests(c, "derive") = 1 /\ LastReplyFailed(c, "balance") /\ DoneErr(c)
    /\ Len(ADDRESS) > 0
    /\ NumRequests(d, "derive") = 0 /\ NumRequests(d, "balance") = 1

\* Call c takes a step.
Steps(c) == pc'[c] # pc[c] \/ log'[c] # log[c] \/ result'[c] # result[c]

\* C19: no step of send_eth_in_ether, get_eth_gas_price, eth_to_wei or
\* transform changes ADDRESS; ADDRESS changes only when get_eth_address or
\* get_eth_balance handles the reply to its derivation request; and when a
\* transfer with nonce Some(n) has failed at submission, any other transfer
\* with nonce Some(n) signs and submits with sequence number n again.
C19_SendLeavesStateAlone ==
  [][ /\ \A c \in Calls :
           ( /\ Steps(c)
             /\ method'[c] \in {"send_eth_in_ether", "get_eth_gas_price",
                                "eth_to_wei", "transform"} )
           => ADDRESS' = ADDRESS
      /\ ADDRESS' # ADDRESS
         => \E c \in Calls :
              /\ method[c] \in {"get_eth_address", "get_eth_balance"}
              /\ pc[c] = "derive" /\ Steps(c)
      /\ \A c, d \in Calls :
           ( /\ c # d
             /\ method'[c] = "send_eth_in_ether" /\ method'[d] = "send_eth_in_ether"
             /\ args'[c].nonce # <<>> /\ args'[d].nonce = args'[c].nonce
             /\ log'[c] # <<>> /\ log'[c][Len(log'[c])].svc = "send_raw"
             /\ log'[c][Len(log'[c])].dir = "rsp" /\ ~log'[c][Len(log'[c])].ok )
           => \A i \in DOMAIN log'[d] :
                (log'[d][i].dir = "req" /\ log'[d][i].svc \in {"sign", "send_raw"})
                => log'[d][i].data.tx.nonce = args'[c].nonce ]_vars

\* A transfer with nonce Some(7) failed at submission, a second transfer with
\* nonce Some(7) has submitted a payload with sequence number 7, and ADDRESS
\* is as empty as it was.
C19_Witness ==
  \E c, d \in Calls :
    /\ c # d
    /\ method[c] = "send_eth_in_ether" /\ method[d] = "send_eth_in_ether"
    /\ args[c].nonce = <<7>> /\ args[d].nonce = <<7>>
    /\ LastReplyFailed(c, "send_raw") /\ DoneErr(c)
    /\ \E i \in RequestsOf(d, "send_raw") : log[d][i].data.tx.nonce = <<7>>
    /\ ADDRESS = <<>>

\* C20: when every outgoing call is eventually answered, it is always the
\* case that eventually every invoked method has returned (no call is left
\* suspended, whatever the other calls are doing); a call is only ever
\* suspended on a request of its own that is its last logged event; and no
\* call issues more than four requests.
C20_EveryCallReturns ==
  /\ [](\A c \in Calls :
          /\ pc[c] \notin {"idle", "done"}
             => ( /\ log[c] # <<>>
                  /\ log[c][Len(log[c])].dir = "req"
                  /\ log[c][Len(log[c])].svc = pc[c] )
          /\ Cardinality({i \in DOMAIN log[c] : log[c][i].dir = "req"}) <= 4)
  /\ []<>(\A c \in Calls : pc[c] \in {"idle", "done"})

\* Two overlapping calls, each of which had to wait for replies, have both
\* returned; one of them issued four requests.
C20_Witness ==
  \E c, d \in Calls :
    /\ c # d
    /\ Done(c) /\ Done(d)
    /\ method[c] = "send_eth_in_ether" /\ NumRequests(c, "send_raw") = 1
    /\ Len(log[c]) = 8
    /\ method[d] = "get_eth_balance" /\ Len(log[d]) = 4

====
